---- MODULE Spec2Model ----
(***************************************************************************)
(* The ULP pulse counter of esphome/components/pulse_counter_ulp.          *)
(*                                                                         *)
(* pulse_counter_ulp_sensor.cpp holds two revisions of the component:      *)
(*   rev = "A"  lines   1-153: UlpProgram (start, pop_state, peek_state,   *)
(*              set_mean_exec_time) and a sensor that keeps last_time_ as  *)
(*              a std::chrono time point;                                  *)
(*   rev = "B"  lines 155-299: UlpPulseCounterStorage (pulse_counter_setup,*)
(*              read_raw_value) and a sensor that keeps last_time_ in      *)
(*              milliseconds and has an optional total sensor.             *)
(*                                                                         *)
(* The main processor's handlers are split at their accesses to the        *)
(* registers in RTC slow memory, which the ULP coprocessor changes         *)
(* concurrently; pc is the main processor's position.  Time is counted in  *)
(* clock units: microseconds in revision A, milliseconds in revision B.    *)
(***************************************************************************)
EXTENDS Integers, Sequences, FiniteSets, TLC

(* ------------------------------ bounds -------------------------------- *)

\* update() is called at most MaxTicks times
MaxTicks == 2
\* the ULP program wakes at most MaxUlpWakes times
MaxUlpWakes == 1
\* the clock readings are at most MaxClock
MaxClock == 1
\* where only the debouncing is followed, the ULP program wakes at most
\* MaxDebounceWakes times
MaxDebounceWakes == 6

(* ------------------------- program constants -------------------------- *)

\* ulp_debounce_counter = 3
InitialDebounceCounter == 3
\* ulp_debounce_max_count = 3 (revision B)
DebounceMaxCountB == 3

\* The registers are 32-bit words of which the ULP program, and every cast to
\* uint16_t, sees the lower 16 bits; a register is kept as the integer that was
\* stored (-1 for the io_number of a pin without RTC IO) and read through Low16.
Low16(x) == x % 65536

VARIABLES
  rev,                      \* the revision of the component that is built
  wake,                     \* esp_sleep_get_wakeup_cause() != ESP_SLEEP_WAKEUP_UNDEFINED
  config,                   \* pin (RTC capable or not), debounce_, sleep_duration_, total_sensor_
  ulp_edge_count,           \* the registers shared with the ULP program
  ulp_run_count,
  ulp_debounce_counter,
  ulp_debounce_max_count,
  ulp_next_edge,
  ulp_io_number,
  ulp_mean_exec_time,
  ulp_running,              \* ulp_run() has started the program
  storage_,                 \* revision A: the unique_ptr<UlpProgram> is not null
  failed,                   \* mark_failed() was called
  last_time_,
  current_total_,
  clock,                    \* clock::now() / millis()
  pc,                       \* the main processor's position
  state,                    \* setup()'s local: the peeked State
  raw,                      \* update()'s local: the popped State
  ticks,                    \* the calls of update() so far
  history,                  \* what every completed update() and set_total_pulses() did
  setup_time,               \* the clock when setup() ran
  ulp_wakes,                \* how often the ULP program has run
  ulp_edges,                \* the edges the ULP program has counted
  quiet,                    \* the ULP program has not run since the last update() began
  quiet2                    \* ... nor since the update() before that began

regs == <<ulp_edge_count, ulp_run_count, ulp_debounce_counter, ulp_debounce_max_count,
          ulp_next_edge, ulp_io_number, ulp_mean_exec_time>>

aux_owned == <<ulp_debounce_counter, ulp_debounce_max_count, ulp_next_edge, ulp_io_number>>

tracker == <<storage_, failed, last_time_, current_total_, state, raw, ticks, history,
             setup_time>>

ghost == <<ulp_wakes, ulp_edges, quiet, quiet2>>

vars == <<rev, wake, config, regs, ulp_running, tracker, clock, pc, ghost>>

(* --------------------------- configuration ---------------------------- *)

\* GPIO4 is RTC_GPIO10; GPIO5 is no RTC IO
Pins == {4, 5}
\* rtc_gpio_is_valid_gpio(gpio_num)
rtc_gpio_is_valid_gpio(gpio_num) == gpio_num = 4
\* rtc_io_number_get(gpio_num): the RTC IO index, -1 for a pin that has none
rtc_io_number_get(gpio_num) == IF gpio_num = 4 THEN 10 ELSE -1

\* config.debounce_
Debounces == {0, 1}
\* config.debounce_ where only the debouncing is followed: also a threshold
\* above the 3 that start() writes to ulp_debounce_counter
DebouncesAroundInitial == Debounces \cup {5}
\* config.sleep_duration_ in microseconds
SleepDurations == {20000}

\* Revision A configures pin, debounce and sleep duration; revision B the pin
\* and the optional total sensor (its debounce and wake period are literals).
Configs(r) ==
  IF r = "A"
    THEN {[pin_ |-> p, debounce_ |-> d, sleep_duration_ |-> s, total_sensor_ |-> FALSE] :
            p \in Pins, d \in Debounces, s \in SleepDurations}
    ELSE {[pin_ |-> p, debounce_ |-> DebounceMaxCountB, sleep_duration_ |-> 20000,
           total_sensor_ |-> t] : p \in Pins, t \in BOOLEAN}

\* What RTC slow memory holds before the program was ever loaded.
StaleValues == {7}
\* (edge_count, run_count) left by the ULP program while the main processor slept.
SleptCounts == {<<0, 0>>, <<2, 3>>, <<10, 50>>}
\* mean_exec_time as the boot before the sleep left it.
SleptMeanExecTimes(r, c) == IF r = "A" THEN {c.sleep_duration_, 3} ELSE StaleValues

NoState == [edge_count |-> 0, run_count |-> 0, mean_exec_time |-> 0]

(* ------------------------------- Init --------------------------------- *)

\* A cold boot finds the registers stale and the ULP program not running.
InitCold ==
  /\ wake = FALSE
  /\ \E v \in StaleValues :
       /\ ulp_edge_count = v
       /\ ulp_run_count = v
       /\ ulp_debounce_counter = v
       /\ ulp_debounce_max_count = v
       /\ ulp_next_edge = v
       /\ ulp_io_number = v
       /\ ulp_mean_exec_time = v
  /\ ulp_running = FALSE
  /\ ulp_edges = 0

\* A wake from deep sleep finds the registers as an earlier boot's start and the
\* ULP program, which kept running, left them.
InitWake ==
  /\ wake = TRUE
  /\ \E c \in SleptCounts :
       /\ ulp_edge_count = c[1]
       /\ ulp_run_count = c[2]
  /\ ulp_debounce_max_count = config.debounce_
  /\ ulp_debounce_counter \in {0, config.debounce_}
  /\ ulp_next_edge = 0
  /\ ulp_io_number = rtc_io_number_get(config.pin_)
  /\ ulp_mean_exec_time \in SleptMeanExecTimes(rev, config)
  /\ ulp_running = TRUE
  /\ ulp_edges = ulp_edge_count

Init ==
  /\ rev \in {"A", "B"}
  /\ config \in Configs(rev)
  /\ (InitCold \/ InitWake)
  /\ storage_ = FALSE
  /\ failed = FALSE
  /\ last_time_ = 0
  /\ current_total_ = 0
  /\ clock = 0
  /\ pc = "boot"
  /\ state = NoState
  /\ raw = NoState
  /\ ticks = 0
  /\ history = << >>
  /\ setup_time = 0
  /\ ulp_wakes = 0
  /\ quiet = FALSE
  /\ quiet2 = FALSE

(* ------------------------- UlpProgram (rev A) ------------------------- *)

\* A faulty start that does not write ulp_mean_exec_time.
start_without_mean_exec_time(cfg, load_ok, run_ok, old) ==
  IF ~load_ok
    THEN [regs |-> old, running |-> FALSE, handle |-> FALSE]
    ELSE [regs |-> [edge_count |-> 0,
                    run_count |-> 0,
                    debounce_counter |-> InitialDebounceCounter,
                    debounce_max_count |-> cfg.debounce_,
                    next_edge |-> 0,
                    io_number |-> rtc_io_number_get(cfg.pin_),
                    mean_exec_time |-> old.mean_exec_time],
          running |-> run_ok,
          handle |-> run_ok]

\* UlpProgram::start: the registers it leaves, whether ulp_run() started the
\* program, and whether it returns a handle.
start(cfg, load_ok, run_ok, old) ==
  IF ~load_ok
    THEN [regs |-> old, running |-> FALSE, handle |-> FALSE]
    ELSE [regs |-> [edge_count |-> 0,
                    run_count |-> 0,
                    debounce_counter |-> InitialDebounceCounter,
                    debounce_max_count |-> cfg.debounce_,
                    next_edge |-> 0,
                    io_number |-> rtc_io_number_get(cfg.pin_),
                    mean_exec_time |-> cfg.sleep_duration_],
          running |-> run_ok,
          handle |-> run_ok]

\* the registers as one record
RegsNow ==
  [edge_count |-> ulp_edge_count,
   run_count |-> ulp_run_count,
   debounce_counter |-> ulp_debounce_counter,
   debounce_max_count |-> ulp_debounce_max_count,
   next_edge |-> ulp_next_edge,
   io_number |-> ulp_io_number,
   mean_exec_time |-> ulp_mean_exec_time]

SetRegs(r) ==
  /\ ulp_edge_count' = r.edge_count
  /\ ulp_run_count' = r.run_count
  /\ ulp_debounce_counter' = r.debounce_counter
  /\ ulp_debounce_max_count' = r.debounce_max_count
  /\ ulp_next_edge' = r.next_edge
  /\ ulp_io_number' = r.io_number
  /\ ulp_mean_exec_time' = r.mean_exec_time

\* A faulty set_mean_exec_time that stores the microseconds without the cast.
set_mean_exec_time_uncast(mean_exec_time) == mean_exec_time

\* UlpProgram::set_mean_exec_time: the value stored in ulp_mean_exec_time
set_mean_exec_time(mean_exec_time) == Low16(mean_exec_time)

\* A faulty backdating that leaves out the run count.
backdate_one_run(now, st) == now - st.mean_exec_time

\* setup()'s wake branch: last_time_ = clock::now() - run_count * mean_exec_time
backdate(now, st) == now - st.run_count * st.mean_exec_time

(* --------------------- PulseCounterUlpSensor (rev A) ------------------ *)

\* the readings of the clock: the first few and a late one, late enough for an
\* interval per run that exceeds 16 bits
ClockReadings == (0..MaxClock) \cup {200000}
\* what a reading of the clock can return: the clock does not go back
Nows == {t \in ClockReadings : t >= clock}

\* setup() on a cold boot: storage_ = UlpProgram::start(config_), mark_failed()
\* when it is null.  last_time_ is not assigned.
setup_cold(now, load_ok, run_ok) ==
  /\ rev = "A" /\ pc = "boot" /\ ~wake
  /\ LET r == start(config, load_ok, run_ok, RegsNow) IN
       /\ SetRegs(r.regs)
       /\ ulp_running' = r.running
       /\ storage_' = r.handle
       /\ failed' = ~r.handle
  /\ clock' = now
  /\ setup_time' = now
  /\ pc' = "idle"
  /\ UNCHANGED <<rev, wake, config, last_time_, current_total_, state, raw, ticks, history,
                 ghost>>

\* setup() after a wake: storage_ = new UlpProgram; peek_state() reads
\* ulp_edge_count, ...
setup_wake ==
  /\ rev = "A" /\ pc = "boot" /\ wake
  /\ storage_' = TRUE
  /\ state' = [state EXCEPT !.edge_count = Low16(ulp_edge_count)]
  /\ pc' = "setup_run_count"
  /\ UNCHANGED <<rev, wake, config, regs, ulp_running, failed, last_time_, current_total_,
                 raw, ticks, history, setup_time, clock, ghost>>

\* ... then ulp_run_count, ...
setup_peek_run_count ==
  /\ rev = "A" /\ pc = "setup_run_count"
  /\ state' = [state EXCEPT !.run_count = Low16(ulp_run_count)]
  /\ pc' = "setup_mean_exec_time"
  /\ UNCHANGED <<rev, wake, config, regs, ulp_running, storage_, failed, last_time_,
                 current_total_, raw, ticks, history, setup_time, clock, ghost>>

\* A faulty wake branch that calls pop_state() where setup() calls peek_state().
setup_wake_done_pops(now) ==
  /\ rev = "A" /\ pc = "setup_mean_exec_time"
  /\ LET st == [state EXCEPT !.mean_exec_time = Low16(ulp_mean_exec_time)] IN
       /\ state' = st
       /\ last_time_' = now - st.run_count * st.mean_exec_time
  /\ ulp_edge_count' = 0
  /\ ulp_run_count' = 0
  /\ clock' = now
  /\ setup_time' = now
  /\ pc' = "idle"
  /\ UNCHANGED <<rev, wake, config, aux_owned, ulp_mean_exec_time, ulp_running, storage_,
                 failed, current_total_, raw, ticks, history, ghost>>

\* ... then ulp_mean_exec_time; last_time_ is backdated from clock::now(), and
\* storage_ is not null, so the sensor is not marked failed.
setup_wake_done(now) ==
  /\ rev = "A" /\ pc = "setup_mean_exec_time"
  /\ LET st == [state EXCEPT !.mean_exec_time = Low16(ulp_mean_exec_time)] IN
       /\ state' = st
       /\ last_time_' = backdate(now, st)
  /\ clock' = now
  /\ setup_time' = now
  /\ pc' = "idle"
  /\ UNCHANGED <<rev, wake, config, regs, ulp_running, storage_, failed, current_total_,
                 raw, ticks, history, ghost>>

\* What a completed update() or set_total_pulses() did: the State it popped, its
\* now and interval, the rate and the total it published, and whether the ULP
\* program stayed quiet from the beginning of the update() before it.
Entry(op, st, now, interval, rate_published, rate, total_published, total, q) ==
  [op |-> op, edge_count |-> st.edge_count, run_count |-> st.run_count, now |-> now,
   interval |-> interval, rate_published |-> rate_published, rate |-> rate,
   total_published |-> total_published, total |-> total, quiet |-> q]

\* A faulty update() without the check of storage_.
update_never_returns_early == FALSE

\* update(): "Can't update if ulp program hasn't been initialised"
update_returns_early == ~storage_

\* update() is called; unless it returns early, pop_state() calls peek_state(),
\* which reads ulp_edge_count, ...
update_begin ==
  /\ rev = "A" /\ pc = "idle" /\ ticks < MaxTicks
  /\ ticks' = ticks + 1
  /\ IF update_returns_early
       THEN UNCHANGED <<pc, raw, quiet, quiet2>>
       ELSE /\ raw' = [raw EXCEPT !.edge_count = Low16(ulp_edge_count)]
            /\ quiet' = TRUE
            /\ quiet2' = quiet
            /\ pc' = "pop_run_count"
  /\ UNCHANGED <<rev, wake, config, regs, ulp_running, storage_, failed, last_time_,
                 current_total_, state, history, setup_time, clock, ulp_wakes, ulp_edges>>

\* ... then ulp_run_count, ...
pop_read_run_count ==
  /\ rev = "A" /\ pc = "pop_run_count"
  /\ raw' = [raw EXCEPT !.run_count = Low16(ulp_run_count)]
  /\ pc' = "pop_mean_exec_time"
  /\ UNCHANGED <<rev, wake, config, regs, ulp_running, storage_, failed, last_time_,
                 current_total_, state, ticks, history, setup_time, clock, ghost>>

\* ... then ulp_mean_exec_time.
pop_read_mean_exec_time ==
  /\ rev = "A" /\ pc = "pop_mean_exec_time"
  /\ raw' = [raw EXCEPT !.mean_exec_time = Low16(ulp_mean_exec_time)]
  /\ pc' = "pop_clear_edge_count"
  /\ UNCHANGED <<rev, wake, config, regs, ulp_running, storage_, failed, last_time_,
                 current_total_, state, ticks, history, setup_time, clock, ghost>>

\* A faulty pop_state() that also re-arms the debounce counter, as start() does.
pop_clear_edge_count_rearms ==
  /\ rev = "A" /\ pc = "pop_clear_edge_count"
  /\ ulp_edge_count' = 0
  /\ ulp_debounce_counter' = InitialDebounceCounter
  /\ pc' = "pop_clear_run_count"
  /\ UNCHANGED <<rev, wake, config, ulp_run_count, ulp_debounce_max_count, ulp_next_edge,
                 ulp_io_number, ulp_mean_exec_time, ulp_running, tracker, clock, ghost>>

\* pop_state(): ulp_edge_count = 0
pop_clear_edge_count ==
  /\ rev = "A" /\ pc = "pop_clear_edge_count"
  /\ ulp_edge_count' = 0
  /\ pc' = "pop_clear_run_count"
  /\ UNCHANGED <<rev, wake, config, ulp_run_count, aux_owned, ulp_mean_exec_time,
                 ulp_running, tracker, clock, ghost>>

\* A faulty pop_state() that does not clear ulp_run_count.
pop_keeps_run_count ==
  /\ rev = "A" /\ pc = "pop_clear_run_count"
  /\ pc' = "update_rest"
  /\ UNCHANGED <<rev, wake, config, regs, ulp_running, tracker, clock, ghost>>

\* pop_state(): ulp_run_count = 0; return state
pop_clear_run_count ==
  /\ rev = "A" /\ pc = "pop_clear_run_count"
  /\ ulp_run_count' = 0
  /\ pc' = "update_rest"
  /\ UNCHANGED <<rev, wake, config, ulp_edge_count, aux_owned, ulp_mean_exec_time,
                 ulp_running, tracker, clock, ghost>>

\* What the division interval / raw.run_count returns when raw.run_count is 0
\* and the integer divide does not trap (undefined behaviour).
DivByZeroQuotients == {0, 65535}

\* one minute in microseconds, the clock unit of revision A
MinuteA == 60000000
\* one minute in milliseconds, the clock unit of revision B
MinuteB == 60000

\* A published rate is count * minute / interval pulses per minute, kept as its
\* three terms.
Rate(count, minute, interval) == [count |-> count, minute |-> minute, interval |-> interval]
NoRate == Rate(0, 0, 0)

\* std::chrono::minutes{1} * static_cast<float>(raw.edge_count) / interval
rate_per_minute(edge_count, interval) == Rate(edge_count, MinuteA, interval)

\* A faulty update() that publishes whatever the interval is.
rate_is_always_due(interval) == TRUE

\* update(): if (interval != clock::duration::zero())
rate_is_due(interval) == interval # 0

\* The rest of update() when the division returns q: the new mean_exec_time and
\* the published rate if one is due, last_time_ = now.
update_publish(now, interval, q) ==
  /\ IF rate_is_due(interval)
       THEN ulp_mean_exec_time' = set_mean_exec_time(q)
       ELSE UNCHANGED ulp_mean_exec_time
  /\ history' = Append(history,
                  Entry("update", raw, now, interval, rate_is_due(interval),
                        IF rate_is_due(interval)
                          THEN rate_per_minute(raw.edge_count, interval) ELSE NoRate,
                        FALSE, 0, quiet2))
  /\ last_time_' = now
  /\ pc' = "idle"

\* The rest of update(): now = clock::now(), interval = now - last_time_, and,
\* when the interval is not zero, interval / raw.run_count, which is undefined
\* for a run count of 0: the divide traps and the firmware panics, or it
\* returns some quotient.
update_rest(now) ==
  /\ rev = "A" /\ pc = "update_rest"
  /\ clock' = now
  /\ LET interval == now - last_time_ IN
       IF rate_is_due(interval) /\ raw.run_count = 0
         THEN \/ /\ pc' = "panic"
                 /\ UNCHANGED <<ulp_mean_exec_time, history, last_time_>>
              \/ \E q \in DivByZeroQuotients : update_publish(now, interval, q)
         ELSE update_publish(now, interval,
                IF rate_is_due(interval) THEN interval \div raw.run_count ELSE 0)
  /\ UNCHANGED <<rev, wake, config, ulp_edge_count, ulp_run_count, aux_owned, ulp_running,
                 storage_, failed, current_total_, state, raw, ticks, setup_time, ghost>>

(* ------------------ UlpPulseCounterStorage (rev B) -------------------- *)

\* A faulty pulse_counter_setup that loads and starts the program after a wake
\* too.
pulse_counter_setup_ignores_wake(cfg, wk, load_ok, run_ok, old, was_running) ==
  IF ~load_ok
    THEN [regs |-> old, running |-> FALSE, ok |-> FALSE]
    ELSE [regs |-> [old EXCEPT !.edge_count = 0,
                               !.run_count = 0,
                               !.debounce_counter = InitialDebounceCounter,
                               !.debounce_max_count = DebounceMaxCountB,
                               !.next_edge = 0,
                               !.io_number = rtc_io_number_get(cfg.pin_)],
          running |-> run_ok,
          ok |-> run_ok]

\* UlpPulseCounterStorage::pulse_counter_setup: the registers it leaves, whether
\* the ULP program runs afterwards, and its result.
pulse_counter_setup(cfg, wk, load_ok, run_ok, old, was_running) ==
  IF wk
    THEN [regs |-> old, running |-> was_running, ok |-> TRUE]
    ELSE IF ~load_ok
      THEN [regs |-> old, running |-> FALSE, ok |-> FALSE]
      ELSE [regs |-> [old EXCEPT !.edge_count = 0,
                                 !.run_count = 0,
                                 !.debounce_counter = InitialDebounceCounter,
                                 !.debounce_max_count = DebounceMaxCountB,
                                 !.next_edge = 0,
                                 !.io_number = rtc_io_number_get(cfg.pin_)],
            running |-> run_ok,
            ok |-> run_ok]

\* read_raw_value(): static_cast<pulse_counter_t>(ulp_edge_count), the 16 bits
\* the ULP program counts in
to_pulse_counter_t(x) == Low16(x)

(* --------------------- PulseCounterUlpSensor (rev B) ------------------ *)

\* setup(): mark_failed() unless pulse_counter_setup() succeeds
setup_B(now, load_ok, run_ok) ==
  /\ rev = "B" /\ pc = "boot"
  /\ LET r == pulse_counter_setup(config, wake, load_ok, run_ok, RegsNow, ulp_running) IN
       /\ SetRegs(r.regs)
       /\ ulp_running' = r.running
       /\ failed' = ~r.ok
  /\ clock' = now
  /\ setup_time' = now
  /\ pc' = "idle"
  /\ UNCHANGED <<rev, wake, config, storage_, last_time_, current_total_, state, raw, ticks,
                 history, ghost>>

\* The scheduler does not call update() on a component that was marked failed.
polling_stopped == failed

\* update() is called: read_raw_value() reads ulp_edge_count, ...
update_begin_B ==
  /\ rev = "B" /\ pc = "idle" /\ ticks < MaxTicks
  /\ ~polling_stopped
  /\ ticks' = ticks + 1
  /\ raw' = [raw EXCEPT !.edge_count = to_pulse_counter_t(ulp_edge_count)]
  /\ quiet' = TRUE
  /\ quiet2' = quiet
  /\ pc' = "read_raw_clear"
  /\ UNCHANGED <<rev, wake, config, regs, ulp_running, storage_, failed, last_time_,
                 current_total_, state, history, setup_time, clock, ulp_wakes, ulp_edges>>

\* ... and then writes ulp_edge_count = 0.
read_raw_clear ==
  /\ rev = "B" /\ pc = "read_raw_clear"
  /\ ulp_edge_count' = 0
  /\ pc' = "update_rest_B"
  /\ UNCHANGED <<rev, wake, config, ulp_run_count, aux_owned, ulp_mean_exec_time,
                 ulp_running, tracker, clock, ghost>>

\* (60000.0f * raw) / float(interval); the float division does not trap when
\* interval is 0, it gives an infinity or a NaN
rate_per_minute_B(count, interval) == Rate(count, MinuteB, interval)

\* A faulty update() that publishes a rate on its first call too.
rate_is_always_due_B(last_time) == TRUE

\* update(): if (this->last_time_ != 0)
rate_is_due_B(last_time) == last_time # 0

\* A faulty update() that assigns the count where update() adds it.
overwrite_total(total, count) == count

\* update(): current_total_ += raw when there is a total sensor (the sum stays
\* far below the 2^32 at which current_total_ wraps)
add_to_total(total, count) == total + count

\* A faulty update() that assigns last_time_ inside the if, with the rate.
update_rest_B_in_if(now) ==
  /\ rev = "B" /\ pc = "update_rest_B"
  /\ clock' = now
  /\ LET interval == now - last_time_
         total == IF config.total_sensor_ THEN add_to_total(current_total_, raw.edge_count)
                                          ELSE current_total_ IN
       /\ current_total_' = total
       /\ history' = Append(history,
                       Entry("update", raw, now, interval, rate_is_due_B(last_time_),
                             IF rate_is_due_B(last_time_)
                               THEN rate_per_minute_B(raw.edge_count, interval) ELSE NoRate,
                             config.total_sensor_,
                             IF config.total_sensor_ THEN total ELSE 0, quiet2))
       /\ last_time_' = IF rate_is_due_B(last_time_) THEN now ELSE last_time_
  /\ pc' = "idle"
  /\ UNCHANGED <<rev, wake, config, regs, ulp_running, storage_, failed, state, raw, ticks,
                 setup_time, ghost>>

\* The rest of update(): now = millis(), interval, the rate if one is due, the
\* total when there is a total sensor, last_time_ = now.
update_rest_B(now) ==
  /\ rev = "B" /\ pc = "update_rest_B"
  /\ clock' = now
  /\ LET interval == now - last_time_
         total == IF config.total_sensor_ THEN add_to_total(current_total_, raw.edge_count)
                                          ELSE current_total_ IN
       /\ current_total_' = total
       /\ history' = Append(history,
                       Entry("update", raw, now, interval, rate_is_due_B(last_time_),
                             IF rate_is_due_B(last_time_)
                               THEN rate_per_minute_B(raw.edge_count, interval) ELSE NoRate,
                             config.total_sensor_,
                             IF config.total_sensor_ THEN total ELSE 0, quiet2))
       /\ last_time_' = now
  /\ pc' = "idle"
  /\ UNCHANGED <<rev, wake, config, regs, ulp_running, storage_, failed, state, raw, ticks,
                 setup_time, ghost>>

\* set_total_pulses() is called at most MaxSetTotals times
MaxSetTotals == 1
\* the values it is called with
TotalPulses == {5}

SetTotals == Cardinality({i \in DOMAIN history : history[i].op = "set_total_pulses"})

\* set_total_pulses(pulses), which the total sensor's automation calls between
\* two updates
set_total_pulses(pulses) ==
  /\ rev = "B" /\ pc = "idle" /\ config.total_sensor_
  /\ SetTotals < MaxSetTotals
  /\ current_total_' = pulses
  /\ history' = Append(history,
                  Entry("set_total_pulses", NoState, clock, 0, FALSE, NoRate, TRUE, pulses,
                        FALSE))
  /\ UNCHANGED <<rev, wake, config, regs, ulp_running, storage_, failed, last_time_, state,
                 raw, ticks, setup_time, clock, pc, ghost>>

(* --------------------------- the ULP program -------------------------- *)

\* One run of the ULP program, every wake period: it counts the run, samples
\* the pin and counts an edge once the new level was seen with the debounce
\* counter at 0, that is after debounce_max_count + 1 samples of the new level.
ulp_run(level) ==
  /\ ulp_running
  /\ ulp_wakes' = ulp_wakes + 1
  /\ quiet' = FALSE
  /\ quiet2' = FALSE
  /\ ulp_run_count' = Low16(ulp_run_count + 1)
  /\ IF level = Low16(ulp_next_edge) % 2
       THEN IF Low16(ulp_debounce_counter) = 0
              THEN /\ ulp_debounce_counter' = Low16(ulp_debounce_max_count)
                   /\ ulp_next_edge' = 1 - (Low16(ulp_next_edge) % 2)
                   /\ ulp_edge_count' = Low16(ulp_edge_count + 1)
                   /\ ulp_edges' = ulp_edges + 1
              ELSE /\ ulp_debounce_counter' = Low16(ulp_debounce_counter) - 1
                   /\ UNCHANGED <<ulp_next_edge, ulp_edge_count, ulp_edges>>
       ELSE /\ ulp_debounce_counter' = Low16(ulp_debounce_max_count)
            /\ UNCHANGED <<ulp_next_edge, ulp_edge_count, ulp_edges>>
  /\ UNCHANGED <<rev, wake, config, ulp_debounce_max_count, ulp_io_number,
                 ulp_mean_exec_time, ulp_running, tracker, clock, pc>>

\* the ULP timer wakes the program, concurrently with the main processor
ulp_wake(level) ==
  /\ ulp_wakes < MaxUlpWakes
  /\ ulp_run(level)

\* the same, where only the debouncing is followed
ulp_wake_debounce(level) ==
  /\ ulp_wakes < MaxDebounceWakes
  /\ ulp_run(level)

(* ------------------------------- Spec --------------------------------- *)

Next ==
  \/ \E now \in Nows, load_ok \in BOOLEAN, run_ok \in BOOLEAN : setup_cold(now, load_ok, run_ok)
  \/ setup_wake
  \/ setup_peek_run_count
  \/ \E now \in Nows : setup_wake_done(now)
  \/ update_begin
  \/ pop_read_run_count
  \/ pop_read_mean_exec_time
  \/ pop_clear_edge_count
  \/ pop_clear_run_count
  \/ \E now \in Nows : update_rest(now)
  \/ \E now \in Nows, load_ok \in BOOLEAN, run_ok \in BOOLEAN : setup_B(now, load_ok, run_ok)
  \/ update_begin_B
  \/ read_raw_clear
  \/ \E now \in Nows : update_rest_B(now)
  \/ \E pulses \in TotalPulses : set_total_pulses(pulses)
  \/ \E level \in {0, 1} : ulp_wake(level)

Spec == Init /\ [][Next]_vars

\* The debouncing alone: a cold boot, setup(), and then the runs of the ULP
\* program on the registers setup() wrote, with no update() in between (a drain
\* writes neither the debounce registers nor the ghosts that count runs and
\* edges).
InitDebounce ==
  /\ rev \in {"A", "B"}
  /\ config \in IF rev = "A"
                  THEN {[c EXCEPT !.debounce_ = d] :
                          c \in Configs("A"), d \in DebouncesAroundInitial}
                  ELSE Configs("B")
  /\ InitCold
  /\ storage_ = FALSE
  /\ failed = FALSE
  /\ last_time_ = 0
  /\ current_total_ = 0
  /\ clock = 0
  /\ pc = "boot"
  /\ state = NoState
  /\ raw = NoState
  /\ ticks = 0
  /\ history = << >>
  /\ setup_time = 0
  /\ ulp_wakes = 0
  /\ quiet = FALSE
  /\ quiet2 = FALSE

NextDebounce ==
  \/ \E now \in Nows, load_ok \in BOOLEAN, run_ok \in BOOLEAN : setup_cold(now, load_ok, run_ok)
  \/ \E now \in Nows, load_ok \in BOOLEAN, run_ok \in BOOLEAN : setup_B(now, load_ok, run_ok)
  \/ \E level \in {0, 1} : ulp_wake_debounce(level)

SpecDebounce == InitDebounce /\ [][NextDebounce]_vars

(* ------------------------------ claims -------------------------------- *)

IsUpdate(e) == e.op = "update"

\* the completed update() calls, in order
Updates == SelectSeq(history, IsUpdate)

RECURSIVE SumEdgeCounts(_, _)
\* the sum of the edge counts the first k entries of h drained
SumEdgeCounts(h, k) == IF k = 0 THEN 0 ELSE SumEdgeCounts(h, k - 1) + h[k].edge_count

SetupPcs == {"boot", "setup_run_count", "setup_mean_exec_time"}

\* C1: no counted edge is lost: whenever no pop_state() is under way, the edge
\* counts its completed calls returned plus the edge_count register add up to
\* the edges the ULP program has counted.
C1_NoEdgeIsLost ==
  (rev = "A" /\ storage_ /\ pc = "idle") =>
    SumEdgeCounts(Updates, Len(Updates)) + Low16(ulp_edge_count) = ulp_edges

\* C2: the rest of an update() whose interval is not zero and whose popped run
\* count is 0 does not divide by zero (no panic) and leaves mean_exec_time
\* unchanged.
C2_ZeroRunCountIsGuarded ==
  [][(rev = "A" /\ pc = "update_rest" /\ pc' # pc
        /\ clock' - last_time_ # 0 /\ raw.run_count = 0)
      => (pc' # "panic" /\ ulp_mean_exec_time' = ulp_mean_exec_time)]_vars

\* C3: a cold boot whose start() did not start the ULP program marks the sensor
\* failed; a failed sensor stays failed, has published nothing, and no call of
\* update() changes a register, last_time_ or what was published.
C3_FailedStartIsTerminal ==
  /\ []((rev = "A" /\ ~wake /\ pc # "boot" /\ ~ulp_running) => failed)
  /\ []((rev = "A" /\ failed) => history = << >>)
  /\ [][(rev = "A" /\ failed) =>
          (failed' /\ UNCHANGED <<regs, last_time_, history, pc>>)]_vars

\* C3 witness: two calls of update() after a start() that wrote the registers
\* and then failed to run the program.
C3_Witness ==
  /\ rev = "A" /\ failed /\ ticks = 2
  /\ ulp_debounce_counter = InitialDebounceCounter

\* C4: after a successful start() on a cold boot, last_time_ is the time at
\* which setup() ran.
C4_ColdStartSetsLastTime ==
  (rev = "A" /\ ~wake /\ pc = "idle" /\ storage_ /\ ticks = 0) => last_time_ = setup_time

\* C5: after a wake, setup() leaves last_time_ = now - run_count * mean_exec_time
\* of the peeked State, and the first update() computes its interval from that
\* backdated time.
C5_WakeBackdatesLastTime ==
  (rev = "A" /\ wake /\ pc \notin SetupPcs) =>
    LET backdated == setup_time - state.run_count * state.mean_exec_time IN
      /\ Updates = << >> => last_time_ = backdated
      /\ Updates # << >> => Updates[1].interval = Updates[1].now - backdated

\* C5 witness: 50 runs of 20000 us backdate last_time_ by 1000000 us, and the
\* first update() has measured its interval from there.
C5_Witness ==
  /\ rev = "A" /\ wake /\ state.run_count = 50 /\ state.mean_exec_time = 20000
  /\ Len(Updates) = 1
  /\ Updates[1].interval = Updates[1].now - setup_time + 1000000
  /\ Updates[1].rate_published

\* C6: no step of setup() after a wake writes a register, so the counts of the
\* sleep are still pending when setup() is done, and the first update() returns
\* them (the counts setup() peeked, if the ULP program did not run in between).
C6_WakeSetupWritesNoRegister ==
  /\ [][(wake /\ pc \in SetupPcs /\ pc' # pc) => UNCHANGED regs]_vars
  /\ []((wake /\ pc = "idle" /\ ticks = 0) => Low16(ulp_edge_count) = ulp_edges)
  /\ []((wake /\ Updates # << >> /\ ulp_wakes = 0) =>
          /\ Updates[1].edge_count = ulp_edges
          /\ rev = "A" => /\ Updates[1].edge_count = state.edge_count
                          /\ Updates[1].run_count = state.run_count)

\* C6 witness: the first update() after a wake has returned the 10 edges and 50
\* runs of the sleep.
C6_Witness ==
  /\ rev = "A" /\ wake /\ Len(Updates) = 1
  /\ Updates[1].edge_count = 10 /\ Updates[1].run_count = 50

C8_ZeroIntervalPublishesNoRate ==
  /\ \A j \in DOMAIN Updates : Updates[j].interval = 0 => ~Updates[j].rate_published
  /\ (pc = "panic" => clock - last_time_ # 0)

\* C9: on a cold boot with a pin that is no RTC IO, setup() marks the sensor
\* failed, the ULP program is not started and nothing is published.
C9_NonRtcPinIsFatal ==
  (~wake /\ ~rtc_gpio_is_valid_gpio(config.pin_) /\ pc # "boot") =>
    (failed /\ ~ulp_running /\ history = << >>)

\* C10: with a total sensor and no call of set_total_pulses(), the k-th update()
\* publishes as total the sum of the edge counts that the first k update()
\* calls drained.
C10_TotalIsSumOfDrainedCounts ==
  (config.total_sensor_ /\ SetTotals = 0) =>
    \A k \in DOMAIN history :
      /\ history[k].total_published
      /\ history[k].total = SumEdgeCounts(history, k)

\* C10 witness: two update() calls that drained 10 edges and then 1 and
\* published the totals 10 and 11.
C10_Witness ==
  /\ config.total_sensor_ /\ SetTotals = 0 /\ Len(history) = 2
  /\ history[1].edge_count = 10 /\ history[2].edge_count = 1
  /\ history[1].total = 10 /\ history[2].total = 11

\* C11: the rest of an update() whose interval is not zero publishes exactly
\* one rate, edge_count * (1 minute / interval) pulses per minute.
C11_NonZeroIntervalPublishesRate ==
  [][(pc \in {"update_rest", "update_rest_B"} /\ pc' # pc /\ clock' - last_time_ # 0) =>
       /\ Len(history') = Len(history) + 1
       /\ LET e == history'[Len(history')] IN
            /\ e.op = "update"
            /\ e.rate_published
            /\ e.rate = Rate(raw.edge_count, IF rev = "A" THEN MinuteA ELSE MinuteB,
                             clock' - last_time_)]_vars

\* C12: the minimum detectable pulse width is (d+1) wake periods for the
\* debounce threshold d: an edge is counted only after d+1 consecutive samples
\* of the new level, so the ULP program has run at least d+1 times for every
\* edge it has counted since start().
C12_EdgeNeedsThresholdPlusOneSamples ==
  (~wake /\ ulp_running) =>
    ulp_wakes >= ulp_edges * (Low16(ulp_debounce_max_count) + 1)

C14_MeanExecTimeIsIntervalPerRun ==
  /\ [][(rev = "A" /\ pc = "update_rest" /\ pc' = "idle"
           /\ clock' - last_time_ # 0 /\ raw.run_count > 0) =>
          ulp_mean_exec_time' = ((clock' - last_time_) \div raw.run_count) % 65536]_vars
  /\ []((rev = "A" /\ pc \in {"pop_clear_edge_count", "pop_clear_run_count", "update_rest"}
           /\ Updates # << >>) =>
          LET e == Updates[Len(Updates)] IN
            (e.interval # 0 /\ e.run_count > 0) =>
              raw.mean_exec_time = (e.interval \div e.run_count) % 65536)

\* C14 witness: one run in 200000 us; the update() stored 200000 mod 2^16 =
\* 3392, and the peek_state() of the next update() has returned 3392.
C14_Witness ==
  /\ rev = "A" /\ pc = "pop_clear_edge_count" /\ Len(Updates) = 1
  /\ Updates[1].interval = 200000 /\ Updates[1].run_count = 1
  /\ ulp_mean_exec_time = 3392 /\ raw.mean_exec_time = 3392

\* C15: once start() has returned (on this boot, or on the boot before the
\* sleep), no step of the main processor writes debounce_counter,
\* debounce_max_count, next_edge or io_number, and what it writes to edge_count
\* and run_count is 0; the only other register it writes is mean_exec_time.
C15_MainProcessorWritesOnlyItsRegisters ==
  [][((wake \/ pc # "boot") /\ ulp_wakes' = ulp_wakes) =>
       /\ UNCHANGED aux_owned
       /\ (ulp_edge_count' # ulp_edge_count => ulp_edge_count' = 0)
       /\ (ulp_run_count' # ulp_run_count => ulp_run_count' = 0)]_vars

\* C15 witness: after a wake with the debounce counter counted down to 0 and
\* threshold 1, setup() has peeked, two update() calls have drained and the
\* first has written mean_exec_time; the debounce registers are as they were.
C15_Witness ==
  /\ rev = "A" /\ wake /\ pc = "idle" /\ Len(Updates) = 2 /\ ulp_wakes = 0
  /\ Updates[1].edge_count = 10 /\ Updates[1].rate_published
  /\ ulp_edge_count = 0 /\ ulp_run_count = 0
  /\ ulp_mean_exec_time = Low16(Updates[1].interval \div 50)
  /\ ulp_debounce_counter = 0 /\ ulp_debounce_max_count = 1
  /\ ulp_next_edge = 0 /\ ulp_io_number = 10

\* the ULP program was started on this boot, and neither it nor update() has
\* run since
JustLaunched == ~wake /\ ulp_running /\ ulp_wakes = 0 /\ ticks = 0

\* C16 as claimed: when the ULP program is launched on a cold boot, the
\* registers hold edge_count = 0, run_count = 0, debounce_counter = 3,
\* next_edge = 0, debounce_max_count = the configured threshold and
\* mean_exec_time = the configured wake period in microseconds.
C16_LaunchRegisters ==
  JustLaunched =>
    /\ ulp_edge_count = 0 /\ ulp_run_count = 0
    /\ ulp_debounce_counter = 3 /\ ulp_next_edge = 0
    /\ ulp_debounce_max_count = config.debounce_
    /\ ulp_mean_exec_time = config.sleep_duration_

\* C16 amended: ... and, in revision A, debounce_max_count = the configured
\* threshold and mean_exec_time = the configured wake period; revision B
\* writes the literal 3 to debounce_max_count and leaves mean_exec_time as it
\* found it.
C16_LaunchRegistersByRevision ==
  JustLaunched =>
    /\ ulp_edge_count = 0 /\ ulp_run_count = 0
    /\ ulp_debounce_counter = 3 /\ ulp_next_edge = 0
    /\ rev = "A" => /\ ulp_debounce_max_count = config.debounce_
                    /\ ulp_mean_exec_time = config.sleep_duration_
    /\ rev = "B" => /\ ulp_debounce_max_count = 3
                    /\ ulp_mean_exec_time \in StaleValues

\* C16 witness: revision A has launched the ULP program with threshold 1 and a
\* wake period of 20000 us.
C16_Witness ==
  /\ rev = "A" /\ JustLaunched /\ pc = "idle"
  /\ ulp_debounce_counter = 3 /\ ulp_debounce_max_count = 1
  /\ ulp_mean_exec_time = 20000

RECURSIVE SumPublishedCounts(_, _)
\* the sum, over the rates the first k entries of h published, of
\* rate * interval / 1 minute, which is the count the rate was computed from
SumPublishedCounts(h, k) ==
  IF k = 0 THEN 0
  ELSE SumPublishedCounts(h, k - 1) + (IF h[k].rate_published THEN h[k].rate.count ELSE 0)

RECURSIVE SumZeroIntervalCounts(_, _)
\* the sum of the edge counts that those of the first k entries of h drained
\* whose interval was zero
SumZeroIntervalCounts(h, k) ==
  IF k = 0 THEN 0
  ELSE SumZeroIntervalCounts(h, k - 1) + (IF h[k].interval = 0 THEN h[k].edge_count ELSE 0)

\* C17: an update() whose interval is zero still drains: it publishes no rate,
\* it has cleared edge_count and run_count, and the edges it drained are in no
\* published rate: the published rates account for the drained edges less
\* those drained with a zero interval.
C17_ZeroIntervalTickDrainsUnpublished ==
  rev = "A" =>
    /\ \A j \in DOMAIN Updates : Updates[j].interval = 0 => ~Updates[j].rate_published
    /\ (pc = "idle" /\ Updates # << >> /\ Updates[Len(Updates)].interval = 0 /\ quiet) =>
         (Low16(ulp_edge_count) = 0 /\ Low16(ulp_run_count) = 0)
    /\ SumPublishedCounts(Updates, Len(Updates))
         = SumEdgeCounts(Updates, Len(Updates)) - SumZeroIntervalCounts(Updates, Len(Updates))

\* C17 witness: a first update() that published the rate of 10 edges and a
\* second one, at the same reading of the clock, that drained 1 edge and
\* published nothing: 11 edges drained, 10 in the published rates.
C17_Witness ==
  /\ rev = "A" /\ pc = "idle" /\ Len(Updates) = 2
  /\ Updates[1].rate_published /\ Updates[1].edge_count = 10
  /\ Updates[2].interval = 0 /\ Updates[2].edge_count = 1 /\ ~Updates[2].rate_published
  /\ ulp_edge_count = 0 /\ ulp_run_count = 0
  /\ SumPublishedCounts(Updates, 2) = 10 /\ SumEdgeCounts(Updates, 2) = 11

\* C18: after a wake, setup() never marks the sensor failed: it attempts no
\* load and no start (the ULP program keeps running, whatever a load or a start
\* would have returned), revision A always has its handle once setup() has
\* begun, and every later update() drains: it goes on to read and clear the
\* registers, and each one that returned has recorded a drain.
C18_WakeSetupNeverFails ==
  /\ [](wake => (~failed /\ ulp_running))
  /\ []((wake /\ rev = "A" /\ pc # "boot") => storage_)
  /\ []((wake /\ pc = "idle") => Len(Updates) = ticks)
  /\ [][(wake /\ ticks' = ticks + 1) => pc' \in {"pop_run_count", "read_raw_clear"}]_vars

\* C18 witness: after a wake, two update() calls have drained, the first the
\* 10 edges of the sleep, and the sensor is not failed.
C18_Witness ==
  /\ rev = "B" /\ wake /\ ~failed /\ pc = "idle" /\ ticks = 2 /\ Len(Updates) = 2
  /\ Updates[1].edge_count = 10 /\ ulp_edge_count = 0

\* C19: in revision B the first update() after a boot finds last_time_ = 0, and
\* an update() that finds last_time_ = 0 publishes no rate, but it has cleared
\* edge_count and, with a total sensor, it adds the count it drained to the
\* total and publishes that.
C19_FirstTickOnlyCountsTotal ==
  /\ []((rev = "B" /\ ticks = 1 /\ pc \in {"read_raw_clear", "update_rest_B"}) =>
          last_time_ = 0)
  /\ [][(rev = "B" /\ pc = "read_raw_clear" /\ pc' # pc /\ last_time_ = 0) =>
          ulp_edge_count' = 0]_vars
  /\ [][(rev = "B" /\ pc = "update_rest_B" /\ pc' = "idle" /\ last_time_ = 0) =>
          /\ Len(history') = Len(history) + 1
          /\ LET e == history'[Len(history')] IN
               /\ e.op = "update" /\ e.edge_count = raw.edge_count
               /\ ~e.rate_published
               /\ e.total_published = config.total_sensor_
               /\ config.total_sensor_ =>
                    /\ e.total = current_total_ + raw.edge_count
                    /\ current_total_' = e.total]_vars

\* C19 witness: after a wake with 10 edges pending and with a total sensor, the
\* first update(), at time 1, published no rate, cleared edge_count and
\* published the total 10.
C19_Witness ==
  /\ rev = "B" /\ wake /\ config.total_sensor_ /\ pc = "idle" /\ Len(history) = 1
  /\ history[1].op = "update" /\ history[1].now = 1 /\ history[1].interval = 1
  /\ history[1].edge_count = 10 /\ ~history[1].rate_published
  /\ history[1].total_published /\ history[1].total = 10 /\ current_total_ = 10
  /\ ulp_edge_count = 0

====
